---- MODULE Spec2Model ----
(***************************************************************************)
(* The wallet store (CryptoWallet.accounts and the files of the wallets     *)
(* directory), create_wallet, send_transaction and get_transaction_history *)
(* of src/wallet.py.                                                        *)
(*                                                                          *)
(* Values are pairs <<tag, n>>: a private key is <<"hex", n>>, the address  *)
(* derived from it <<"0x", n>>, the hash of an address <<"keccak", n>>.     *)
(* A file's text is a sequence of JSON tokens <<kind, field, value>>.       *)
(* The blockchain client and the explorer are collaborators: each of their  *)
(* calls either answers or raises.                                          *)
(*                                                                          *)
(* The directory is an input: before the first run it may hold the file of  *)
(* an older wallet, a stray .json file and a file that is no .json, with    *)
(* whole, foreign, torn or malformed texts. Afterwards only create_wallet   *)
(* writes to it. secrets.token_hex draws 256 random bits: a drawn key is    *)
(* taken to be new, never one an existing file or an earlier call has.      *)
(* A process serves any number of operations and then ends (or is killed    *)
(* while create_wallet writes); the next one initializes a new store.       *)
(***************************************************************************)
EXTENDS Integers, Sequences, FiniteSets, TLC

\* Bounds of the model.
MaxNew == 1      \* private keys secrets.token_hex can still draw
MaxTxs == 1      \* transactions in one explorer answer

\* the key of the wallet whose file may be in the directory before the first run
OldKeys == {1}
NewKeys == 2..(1 + MaxNew)

NoVal == <<"", 0>>

HexOf(k) == <<"hex", k>>

\* Account.from_key(private_key).address
AddressOf(private_key) == <<"0x", private_key[2]>>

\* web3.keccak(text=...).hex()
keccak(text) == <<"keccak", text[2]>>

\* web3.is_address
is_address(a) == a[1] = "0x"

\* "0x" + private_key
Prefixed(private_key) == <<"0x" \o private_key[1], private_key[2]>>

-----------------------------------------------------------------------------
\* JSON text.

Fields == <<"address", "private_key", "public_key">>

OpenBrace == <<"{", "", NoVal>>
CloseBrace == <<"}", "", NoVal>>
Pair(f, v) == <<"pair", f, v>>
Scalar == <<"scalar", "", NoVal>>

\* json.dump that loses the last chunk (the file is never flushed to its end)
json_dump_unclosed(d) ==
  <<OpenBrace>> \o [i \in 1..Len(Fields) |-> Pair(Fields[i], d[Fields[i]])]

\* json.dump(wallet_data, f, indent=4): the chunks in the order they are written
json_dump(d) ==
  <<OpenBrace>> \o [i \in 1..Len(Fields) |-> Pair(Fields[i], d[Fields[i]])] \o <<CloseBrace>>

IsObjectText(text) ==
  /\ Len(text) >= 2
  /\ text[1] = OpenBrace
  /\ text[Len(text)] = CloseBrace
  /\ \A i \in 2..(Len(text) - 1) : text[i][1] = "pair"

IsScalarText(text) == text = <<Scalar>>

\* the dict json.load builds from an object: a repeated key keeps its last value
ObjectOf(text) ==
  LET idx == 2..(Len(text) - 1)
      keys == {text[i][2] : i \in idx}
      last(f) == CHOOSE i \in idx : text[i][2] = f /\ \A j \in idx : text[j][2] = f => j <= i
  IN [f \in keys |-> text[last(f)][3]]

\* json.load(f): raises on a text that is no JSON value
json_load(text) ==
  IF IsObjectText(text) THEN [ok |-> TRUE, dict |-> TRUE, val |-> ObjectOf(text)]
  ELSE IF IsScalarText(text) THEN [ok |-> TRUE, dict |-> FALSE, val |-> [f \in {} |-> NoVal]]
  ELSE [ok |-> FALSE, dict |-> FALSE, val |-> [f \in {} |-> NoVal]]

-----------------------------------------------------------------------------
\* The wallets directory.

\* os.path.join('wallets', f"{account.address}.json")
wallet_path(address) == <<address, ".json">>

StrayName == <<<<"stray", 0>>, ".json">>
NotesName == <<<<"notes", 0>>, ".txt">>

\* filename.endswith('.json')
endswith_json(filename) == filename[2] = ".json"

\* the dict create_wallet builds
wallet_data(private_key) ==
  [address |-> AddressOf(private_key),
   private_key |-> private_key,
   public_key |-> keccak(AddressOf(private_key))]

\* a record carrying the address of key k and another private key
Tampered(k) ==
  [address |-> AddressOf(HexOf(k)),
   private_key |-> HexOf(0),
   public_key |-> keccak(AddressOf(HexOf(k)))]

ProperPrefixes(text) == {SubSeq(text, 1, n) : n \in 0..(Len(text) - 1)}

NoAddressText == <<OpenBrace, Pair("private_key", HexOf(0)), CloseBrace>>

InitialNames == {wallet_path(AddressOf(HexOf(k))) : k \in OldKeys} \cup {StrayName, NotesName}

\* the texts a file of the directory may hold before the first run: a record,
\* a record of the same address with another key, an object without address,
\* a JSON value that is no object and, under a wallet's own name, the torn
\* record an interrupted create_wallet leaves
WholeTexts ==
  UNION {{json_dump(wallet_data(HexOf(k))), json_dump(Tampered(k))} : k \in OldKeys}
    \cup {NoAddressText, <<Scalar>>}

InitialTexts ==
  WholeTexts \cup UNION {ProperPrefixes(json_dump(wallet_data(HexOf(k)))) : k \in OldKeys}

TextsFor(name) ==
  IF name = NotesName THEN {json_dump(wallet_data(HexOf(k))) : k \in OldKeys}
  ELSE IF name = StrayName THEN WholeTexts
  ELSE InitialTexts

InitialDirs ==
  UNION {{d \in [names -> InitialTexts] : \A n \in names : d[n] \in TextsFor(n)} :
           names \in SUBSET InitialNames}

EmptyAccounts == [a \in {} |-> [f \in {} |-> NoVal]]

\* self.accounts = {address: wallet_data}: the mapping is replaced, not extended
Put_replace(acc, address, d) == [a \in {address} |-> d]

\* self.accounts[address] = wallet_data
Put(acc, address, d) ==
  [a \in DOMAIN acc \cup {address} |-> IF a = address THEN d ELSE acc[a]]

\* open(path, 'w') and f.write: the file at path holds text
WriteFile(dir, path, text) ==
  [n \in DOMAIN dir \cup {path} |-> IF n = path THEN text ELSE dir[n]]

\* the body of the loop of _load_existing_wallets for one filename
LoadOne(acc, dir, filename) ==
  IF ~endswith_json(filename) THEN acc
  ELSE LET parsed == json_load(dir[filename])
       IN IF ~parsed.ok THEN acc                        \* json.load raises
          ELSE IF ~parsed.dict THEN acc                  \* wallet_data['address']: TypeError
          ELSE IF "address" \notin DOMAIN parsed.val THEN acc   \* KeyError
          ELSE Put(acc, parsed.val["address"], parsed.val)

\* the loop with the try around it instead of inside it: the first file that
\* raises ends the loading
RECURSIVE LoadFrom_abort(_, _, _)
LoadFrom_abort(acc, dir, listing) ==
  IF listing = <<>> THEN acc
  ELSE LET filename == Head(listing)
           parsed == json_load(dir[filename])
           raises == endswith_json(filename)
                       /\ ~(parsed.ok /\ parsed.dict /\ "address" \in DOMAIN parsed.val)
       IN IF raises THEN acc
          ELSE LoadFrom_abort(LoadOne(acc, dir, filename), dir, Tail(listing))

RECURSIVE LoadFrom(_, _, _)
LoadFrom(acc, dir, listing) ==
  IF listing = <<>> THEN acc
  ELSE LoadFrom(LoadOne(acc, dir, Head(listing)), dir, Tail(listing))

\* os.listdir('wallets'): the names in an arbitrary order
RECURSIVE Orders(_)
Orders(names) ==
  IF names = {} THEN {<<>>}
  ELSE UNION {{<<n>> \o rest : rest \in Orders(names \ {n})} : n \in names}

Listings(dir) == Orders(DOMAIN dir)

\* _load_existing_wallets on a fresh self.accounts = {}
_load_existing_wallets(dir, listing) == LoadFrom(EmptyAccounts, dir, listing)

-----------------------------------------------------------------------------
VARIABLES
  pc,        \* where the process is: "boot", "idle", an operation's step, "returned"
  accounts,  \* self.accounts
  disk,      \* the wallets directory: filename -> text
  fbuf,      \* create_wallet: the chunks json.dump has still to write
  wkey,      \* create_wallet: the private key drawn
  tx,        \* send_transaction: its arguments and the values it has gathered
  calls,     \* the calls made to the client and the explorer in this operation
  ret,       \* what the operation returned or raised
  loaded,    \* the mapping the latest initialization built, while the directory is as it read it
  drawn,     \* private keys drawn so far
  session,   \* records create_wallet returned in this process
  produced   \* records create_wallet returned in any process

vars == <<pc, accounts, disk, fbuf, wkey, tx, calls, ret, loaded, drawn, session, produced>>

NoResponse == [raises |-> FALSE, status_code |-> 0, json |-> FALSE, status |-> "", result |-> <<>>]
NoTx == [from |-> NoVal, to |-> NoVal, key |-> NoVal, hash |-> NoVal, response |-> NoResponse]
NoRet == [op |-> "none", kind |-> "none", err |-> "", txid |-> NoVal, list |-> <<>>]

Value(op, txid, list) == [op |-> op, kind |-> "value", err |-> "", txid |-> txid, list |-> list]
Raise(op, err) == [op |-> op, kind |-> "error", err |-> err, txid |-> NoVal, list |-> <<>>]

NotLoaded == [done |-> FALSE, map |-> EmptyAccounts]

Init ==
  /\ pc = "boot"
  /\ accounts = EmptyAccounts
  /\ disk \in InitialDirs
  /\ fbuf = <<>>
  /\ wkey = NoVal
  /\ tx = NoTx
  /\ calls = <<>>
  /\ ret = NoRet
  /\ loaded = NotLoaded
  /\ drawn = {}
  /\ session = {}
  /\ produced = {}

\* CryptoWallet.__init__: self.accounts = {}, then _load_existing_wallets
Initialize ==
  /\ pc = "boot"
  /\ accounts' \in {_load_existing_wallets(disk, listing) : listing \in Listings(disk)}
  /\ loaded' = [done |-> TRUE, map |-> accounts']
  /\ pc' = "idle"
  /\ session' = {}
  /\ UNCHANGED <<disk, fbuf, wkey, tx, calls, ret, drawn, produced>>

\* the process ends after an operation; the next invocation builds a new store
Exit ==
  /\ pc \in {"idle", "returned"}
  /\ pc' = "boot"
  /\ accounts' = EmptyAccounts
  /\ calls' = <<>>
  /\ ret' = NoRet
  /\ session' = {}
  /\ tx' = NoTx
  /\ UNCHANGED <<disk, fbuf, wkey, loaded, drawn, produced>>

\* the caller has read the result and goes on with the same store
Continue ==
  /\ pc = "returned"
  /\ pc' = "idle"
  /\ calls' = <<>>
  /\ ret' = NoRet
  /\ tx' = NoTx
  /\ UNCHANGED <<accounts, disk, fbuf, wkey, loaded, drawn, session, produced>>

-----------------------------------------------------------------------------
\* create_wallet

\* secrets.token_hex(32): 256 random bits, a key no wallet of the directory has
\* and no earlier call drew; the keys are numbered in the order they are drawn
token_hex == {HexOf(k) : k \in {n \in NewKeys \ drawn : \A m \in NewKeys : m < n => m \in drawn}}

\* lines 70-80: the key and the record are built and open(wallet_path, 'w')
\* creates or truncates the file
CreateOpen ==
  /\ pc = "idle"
  /\ \E private_key \in token_hex :
       /\ wkey' = private_key
       /\ drawn' = drawn \cup {private_key[2]}
       /\ fbuf' = json_dump(wallet_data(private_key))
       /\ disk' = WriteFile(disk, wallet_path(AddressOf(private_key)), <<>>)
  /\ pc' = "create_write"
  /\ loaded' = NotLoaded
  /\ UNCHANGED <<accounts, tx, calls, ret, session, produced>>

\* line 81: json.dump writes the next chunk
CreateWrite ==
  /\ pc = "create_write"
  /\ fbuf # <<>>
  /\ LET path == wallet_path(AddressOf(wkey))
     IN disk' = WriteFile(disk, path, Append(disk[path], Head(fbuf)))
  /\ fbuf' = Tail(fbuf)
  /\ UNCHANGED <<pc, accounts, wkey, tx, calls, ret, loaded, drawn, session, produced>>

\* lines 81-84: the file is closed, the record enters self.accounts and is returned
CreateReturn ==
  /\ pc = "create_write"
  /\ fbuf = <<>>
  /\ accounts' = Put(accounts, AddressOf(wkey), wallet_data(wkey))
  /\ session' = session \cup {wallet_data(wkey)}
  /\ produced' = produced \cup {wallet_data(wkey)}
  /\ ret' = Value("create", NoVal, <<>>)
  /\ wkey' = NoVal
  /\ pc' = "returned"
  /\ UNCHANGED <<disk, fbuf, tx, calls, loaded, drawn>>

\* line 81: a write raises (OSError); the with block closes the file as it is
\* and the exception leaves create_wallet
CreateWriteRaises ==
  /\ pc = "create_write"
  /\ fbuf # <<>>
  /\ ret' = Raise("create", "OSError")
  /\ fbuf' = <<>>
  /\ wkey' = NoVal
  /\ pc' = "returned"
  /\ UNCHANGED <<accounts, disk, tx, calls, loaded, drawn, session, produced>>

\* the process is killed between open and close: what was written stays
CrashInCreate ==
  /\ pc = "create_write"
  /\ pc' = "boot"
  /\ accounts' = EmptyAccounts
  /\ fbuf' = <<>>
  /\ wkey' = NoVal
  /\ session' = {}
  /\ UNCHANGED <<disk, tx, calls, ret, loaded, drawn, produced>>

-----------------------------------------------------------------------------
\* send_transaction

\* the addresses a caller may pass: every wallet's, one of no wallet, a malformed one
UnknownAddress == <<"0x", 0>>
MalformedAddress == <<"zz", 0>>
AddressInputs ==
  {AddressOf(HexOf(k)) : k \in OldKeys \cup NewKeys} \cup {UnknownAddress, MalformedAddress}

Call(name, arg, outcome) == <<name, arg, outcome>>

\* a call to the client that answers
Answered(name, arg, next) ==
  /\ calls' = Append(calls, Call(name, arg, "ok"))
  /\ pc' = next
  /\ UNCHANGED ret

\* a call to the client that raises: the exception leaves send_transaction
Raised(name, arg) ==
  /\ calls' = Append(calls, Call(name, arg, "raise"))
  /\ pc' = "returned"
  /\ ret' = Raise("send", name)

\* send_transaction with the sender looked up after the nonce query
SendStart_late ==
  /\ pc = "idle"
  /\ \E from_address \in AddressInputs, to_address \in {UnknownAddress, MalformedAddress} :
       IF from_address \notin DOMAIN accounts
       THEN /\ ret' = Raise("send", "Sender address not found in wallet")
            /\ tx' = [NoTx EXCEPT !.from = from_address, !.to = to_address]
            /\ calls' = <<Call("get_transaction_count", from_address, "ok")>>
            /\ pc' = "returned"
       ELSE /\ "private_key" \in DOMAIN accounts[from_address]
            /\ tx' = [NoTx EXCEPT !.from = from_address, !.to = to_address,
                                  !.key = accounts[from_address]["private_key"]]
            /\ pc' = "send_nonce"
            /\ UNCHANGED <<ret, calls>>
  /\ UNCHANGED <<accounts, disk, fbuf, wkey, loaded, drawn, session, produced>>

\* lines 100-104
SendStart ==
  /\ pc = "idle"
  /\ \E from_address \in AddressInputs, to_address \in {UnknownAddress, MalformedAddress} :
       IF from_address \notin DOMAIN accounts
       THEN /\ ret' = Raise("send", "Sender address not found in wallet")
            /\ tx' = [NoTx EXCEPT !.from = from_address, !.to = to_address]
            /\ pc' = "returned"
       ELSE IF "private_key" \notin DOMAIN accounts[from_address]
       THEN /\ ret' = Raise("send", "KeyError")
            /\ tx' = [NoTx EXCEPT !.from = from_address, !.to = to_address]
            /\ pc' = "returned"
       ELSE /\ tx' = [NoTx EXCEPT !.from = from_address, !.to = to_address,
                                  !.key = accounts[from_address]["private_key"]]
            /\ pc' = "send_nonce"
            /\ UNCHANGED ret
  /\ UNCHANGED <<accounts, disk, fbuf, wkey, calls, loaded, drawn, session, produced>>

\* line 107: self.web3.eth.get_transaction_count(from_address)
SendNonce ==
  /\ pc = "send_nonce"
  /\ \/ Answered("get_transaction_count", tx.from, "send_gas_price")
     \/ Raised("get_transaction_count", tx.from)
  /\ UNCHANGED <<accounts, disk, fbuf, wkey, tx, loaded, drawn, session, produced>>

\* line 108: self.web3.eth.gas_price
SendGasPrice ==
  /\ pc = "send_gas_price"
  /\ \/ Answered("gas_price", NoVal, "send_to_wei")
     \/ Raised("gas_price", NoVal)
  /\ UNCHANGED <<accounts, disk, fbuf, wkey, tx, loaded, drawn, session, produced>>

\* line 111: self.web3.to_wei(amount, 'ether') raises on an amount out of range
SendToWei ==
  /\ pc = "send_to_wei"
  /\ \/ Answered("to_wei", NoVal, "send_chain_id")
     \/ Raised("to_wei", NoVal)
  /\ UNCHANGED <<accounts, disk, fbuf, wkey, tx, loaded, drawn, session, produced>>

\* lines 114-121: the dict is built; 'chainId' reads self.web3.eth.chain_id
SendChainId ==
  /\ pc = "send_chain_id"
  /\ \/ Answered("chain_id", NoVal, "send_sign")
     \/ Raised("chain_id", NoVal)
  /\ UNCHANGED <<accounts, disk, fbuf, wkey, tx, loaded, drawn, session, produced>>

\* line 124: sign_transaction(transaction, "0x" + private_key); the signer
\* rejects a transaction whose 'to' is no address
SendSign ==
  /\ pc = "send_sign"
  /\ \/ /\ is_address(tx.to)
        /\ Answered("sign_transaction", Prefixed(tx.key), "send_raw")
     \/ Raised("sign_transaction", Prefixed(tx.key))
  /\ UNCHANGED <<accounts, disk, fbuf, wkey, tx, loaded, drawn, session, produced>>

\* send_raw_transaction followed by the return, without the wait for the receipt
SendRaw_nowait ==
  /\ pc = "send_raw"
  /\ \/ /\ Answered("send_raw_transaction", NoVal, "send_return")
        /\ tx' = [tx EXCEPT !.hash = <<"tx", tx.from[2]>>]
     \/ /\ Raised("send_raw_transaction", NoVal)
        /\ UNCHANGED tx
  /\ UNCHANGED <<accounts, disk, fbuf, wkey, loaded, drawn, session, produced>>

\* line 125: send_raw_transaction(signed_txn.raw_transaction) answers the hash
SendRaw ==
  /\ pc = "send_raw"
  /\ \/ /\ Answered("send_raw_transaction", NoVal, "send_wait")
        /\ tx' = [tx EXCEPT !.hash = <<"tx", tx.from[2]>>]
     \/ /\ Raised("send_raw_transaction", NoVal)
        /\ UNCHANGED tx
  /\ UNCHANGED <<accounts, disk, fbuf, wkey, loaded, drawn, session, produced>>

\* line 128: wait_for_transaction_receipt(tx_hash)
SendWait ==
  /\ pc = "send_wait"
  /\ \/ Answered("wait_for_transaction_receipt", tx.hash, "send_return")
     \/ Raised("wait_for_transaction_receipt", tx.hash)
  /\ UNCHANGED <<accounts, disk, fbuf, wkey, tx, loaded, drawn, session, produced>>

\* self.web3.to_hex(tx_hash)
to_hex(hash) == <<"0x" \o hash[1], hash[2]>>

\* the return that also notes the transaction in the sender's record
SendReturn_records ==
  /\ pc = "send_return"
  /\ ret' = Value("send", to_hex(tx.hash), <<>>)
  /\ accounts' = Put(accounts, tx.from, [accounts[tx.from] EXCEPT !["public_key"] = tx.hash])
  /\ pc' = "returned"
  /\ UNCHANGED <<disk, fbuf, wkey, tx, calls, loaded, drawn, session, produced>>

\* line 129
SendReturn ==
  /\ pc = "send_return"
  /\ ret' = Value("send", to_hex(tx.hash), <<>>)
  /\ pc' = "returned"
  /\ UNCHANGED <<accounts, disk, fbuf, wkey, tx, calls, loaded, drawn, session, produced>>

-----------------------------------------------------------------------------
\* get_transaction_history

TxStatuses == {"0", "1"}

\* the transactions of an explorer answer: hash and txreceipt_status
ExplorerTx == [hash : {<<"tx", 1>>}, txreceipt_status : TxStatuses]

ExplorerLists == UNION {[1..n -> ExplorerTx] : n \in 0..MaxTxs}

\* what requests.get can do: raise, or answer with a status code and a body
ExplorerAnswers ==
  {[raises |-> TRUE, status_code |-> 0, json |-> FALSE, status |-> "", result |-> <<>>]}
    \cup {[raises |-> FALSE, status_code |-> 500, json |-> FALSE, status |-> "", result |-> <<>>]}
    \cup {[raises |-> FALSE, status_code |-> 200, json |-> FALSE, status |-> "", result |-> <<>>]}
    \cup {[raises |-> FALSE, status_code |-> 200, json |-> TRUE, status |-> "0", result |-> <<>>]}
    \cup {[raises |-> FALSE, status_code |-> 200, json |-> TRUE, status |-> "1", result |-> l] :
            l \in ExplorerLists}

\* _format_transactions: the hash and the status label of each transaction
_format_transactions(transactions) ==
  [i \in 1..Len(transactions) |->
     [hash |-> transactions[i].hash,
      status |-> IF transactions[i].txreceipt_status = "1" THEN "Success" ELSE "Failed"]]

\* lines 149-154 for one answer of the explorer
HistoryResult(response) ==
  IF response.raises THEN Raise("history", "requests.get")
  ELSE IF response.status_code = 200
       THEN IF ~response.json THEN Raise("history", "response.json")
            ELSE IF response.status = "1"
                 THEN Value("history", NoVal, _format_transactions(response.result))
                 ELSE Value("history", NoVal, <<>>)
       ELSE Value("history", NoVal, <<>>)

get_transaction_history ==
  /\ pc = "idle"
  /\ \E address \in AddressInputs :
       IF ~is_address(address)
       THEN /\ ret' = Raise("history", "Invalid address")
            /\ tx' = [NoTx EXCEPT !.from = address]
            /\ UNCHANGED calls
       ELSE \E response \in ExplorerAnswers :
              /\ calls' = <<Call("requests.get", address, IF response.raises THEN "raise" ELSE "ok")>>
              /\ tx' = [NoTx EXCEPT !.from = address, !.response = response]
              /\ ret' = HistoryResult(response)
  /\ pc' = "returned"
  /\ UNCHANGED <<accounts, disk, fbuf, wkey, loaded, drawn, session, produced>>

-----------------------------------------------------------------------------
Next ==
  \/ Initialize
  \/ Exit
  \/ Continue
  \/ CreateOpen
  \/ CreateWrite
  \/ CreateReturn
  \/ CreateWriteRaises
  \/ CrashInCreate
  \/ SendStart
  \/ SendNonce
  \/ SendGasPrice
  \/ SendToWei
  \/ SendChainId
  \/ SendSign
  \/ SendRaw
  \/ SendWait
  \/ SendReturn
  \/ get_transaction_history

Spec == Init /\ [][Next]_vars

\* the store alone: initialization and create_wallet
StoreNext ==
  \/ Initialize
  \/ Exit
  \/ Continue
  \/ CreateOpen
  \/ CreateWrite
  \/ CreateReturn
  \/ CreateWriteRaises
  \/ CrashInCreate

StoreSpec == Init /\ [][StoreNext]_vars

\* the operations that talk to the client and the explorer, over a loaded store
ClientNext ==
  \/ Initialize
  \/ Exit
  \/ Continue
  \/ SendStart
  \/ SendNonce
  \/ SendGasPrice
  \/ SendToWei
  \/ SendChainId
  \/ SendSign
  \/ SendRaw
  \/ SendWait
  \/ SendReturn
  \/ get_transaction_history

ClientSpec == Init /\ [][ClientNext]_vars

-----------------------------------------------------------------------------
\* What the properties below speak of.

RecordFields == {"address", "private_key", "public_key"}

\* a record file the loader can take: it parses to an object with an address
ValidFile(dir, n) ==
  /\ endswith_json(n)
  /\ json_load(dir[n]).ok
  /\ json_load(dir[n]).dict
  /\ "address" \in DOMAIN json_load(dir[n]).val

RecordIn(dir, n) == json_load(dir[n]).val

MalformedFile(dir, n) == endswith_json(n) /\ ~ValidFile(dir, n)

SameThreeFields(d, r) == \A f \in RecordFields : f \in DOMAIN d /\ d[f] = r[f]

SendPcs ==
  {"send_nonce", "send_gas_price", "send_to_wei", "send_chain_id", "send_sign", "send_raw",
   "send_wait", "send_return"}

InSend == pc \in SendPcs \/ (pc = "returned" /\ ret.op = "send")

SendReturned == pc = "returned" /\ ret.op = "send"

HistoryReturned == pc = "returned" /\ ret.op = "history"

-----------------------------------------------------------------------------
\* C1. Round trip: once a store is initialized over the directory, every record
\* create_wallet produced before is in the mapping under its address, with the
\* address, private_key and public_key that were written.
RoundTrip ==
  loaded.done =>
    \A r \in produced :
      /\ r.address \in DOMAIN loaded.map
      /\ SameThreeFields(loaded.map[r.address], r)

RoundTripReached == loaded.done /\ produced # {} /\ pc = "idle"

InitializationCompletes == pc = "boot" => ENABLED Initialize

OnlyValidRecords ==
  loaded.done =>
    \A a \in DOMAIN loaded.map :
      \E n \in DOMAIN disk :
        ValidFile(disk, n) /\ RecordIn(disk, n)["address"] = a /\ loaded.map[a] = RecordIn(disk, n)

EveryValidFilePresent ==
  loaded.done =>
    \A n \in DOMAIN disk :
      ValidFile(disk, n) =>
        /\ RecordIn(disk, n)["address"] \in DOMAIN loaded.map
        /\ loaded.map[RecordIn(disk, n)["address"]] = RecordIn(disk, n)

\* C2 as stated. Initialization always completes; every valid record file is in
\* the mapping under its address with its own record; the mapping holds only
\* records of valid files.
CorruptFileTolerance_AsStated ==
  InitializationCompletes /\ EveryValidFilePresent /\ OnlyValidRecords

\* C2 amended. Initialization always completes; the address of every valid
\* record file is a key of the mapping; every entry of the mapping is the
\* record of a valid file carrying that address (so a valid file's own record
\* when no other valid file carries its address); malformed files add nothing.
CorruptFileTolerance ==
  /\ InitializationCompletes
  /\ OnlyValidRecords
  /\ loaded.done =>
       \A n \in DOMAIN disk :
         ValidFile(disk, n) => RecordIn(disk, n)["address"] \in DOMAIN loaded.map

CorruptFileSkipped ==
  /\ loaded.done
  /\ \E n \in DOMAIN disk : MalformedFile(disk, n)
  /\ \E n \in DOMAIN disk : ValidFile(disk, n)
  /\ DOMAIN loaded.map # {}

\* C3. send_transaction with a from_address that is no key of self.accounts
\* raises "Sender address not found in wallet" and calls the client neither
\* before nor after.
SenderNotFound ==
  (InSend /\ tx.from \notin DOMAIN accounts) =>
    /\ pc = "returned"
    /\ ret.kind = "error"
    /\ ret.err = "Sender address not found in wallet"
    /\ calls = <<>>

SenderNotFoundReached ==
  SendReturned /\ tx.from \notin DOMAIN accounts /\ DOMAIN accounts # {}

QueriesAnswered ==
  \A i \in 1..Len(calls) : calls[i][3] = "raise" => calls[i][1] = "sign_transaction"

\* C4. send_transaction with a malformed to_address and a stored sender, and
\* get_transaction_history with a malformed address, each raise "Invalid
\* address" before anything is signed or broadcast and before the explorer is
\* queried. (For send_transaction the runs looked at are those in which the
\* client answered every query, so that no failure of the network stands in
\* for the missing error.)
AddressValidation ==
  /\ (SendReturned /\ tx.from \in DOMAIN accounts /\ ~is_address(tx.to) /\ QueriesAnswered) =>
       /\ ret.kind = "error"
       /\ ret.err = "Invalid address"
       /\ \A i \in 1..Len(calls) :
            calls[i][1] \notin {"sign_transaction", "send_raw_transaction"}
  /\ (HistoryReturned /\ ~is_address(tx.from)) =>
       /\ ret.kind = "error"
       /\ ret.err = "Invalid address"
       /\ calls = <<>>

\* C5. After a crash during create_wallet the file of the address is absent or
\* holds the complete new record (the address is new: there is no previous
\* content).
CrashSafePut ==
  pc = "boot" =>
    \A k \in drawn :
      LET path == wallet_path(AddressOf(HexOf(k)))
      IN path \in DOMAIN disk => disk[path] = json_dump(wallet_data(HexOf(k)))

ClaimedOrder ==
  <<"get_transaction_count", "gas_price", "sign_transaction", "send_raw_transaction",
    "wait_for_transaction_receipt">>

IsClaimedStep(c) == \E i \in 1..Len(ClaimedOrder) : ClaimedOrder[i] = c[1]

IsPrefix(s, t) == Len(s) <= Len(t) /\ \A i \in 1..Len(s) : s[i] = t[i]

StepNames(cs) == [i \in 1..Len(cs) |-> cs[i][1]]

\* C6. send_transaction queries the nonce, then the gas price, then signs with
\* the sender's stored private key, then broadcasts, then waits for the
\* receipt, then returns; the identifier is returned only after the wait
\* answered; a step that raises is the last one and no identifier is returned.
SendOrdering ==
  InSend =>
    LET steps == StepNames(SelectSeq(calls, IsClaimedStep))
    IN /\ IsPrefix(steps, ClaimedOrder)
       /\ \A i \in 1..Len(calls) :
            calls[i][3] = "raise" => i = Len(calls) /\ pc = "returned" /\ ret.kind = "error"
       /\ \A i \in 1..Len(calls) :
            calls[i][1] = "sign_transaction" =>
              calls[i][2] = Prefixed(accounts[tx.from]["private_key"])
       /\ ret.kind = "value" =>
            /\ pc = "returned"
            /\ steps = ClaimedOrder
            /\ \A i \in 1..Len(calls) : calls[i][3] = "ok"
            /\ ret.txid = to_hex(tx.hash)
       /\ ret.kind # "value" => ret.txid = NoVal

SendConfirmed == SendReturned /\ ret.kind = "value"

\* C7. get_transaction_history of a well-formed address returns the empty list,
\* never an error, when the explorer request raises, answers non-200 or reports
\* a status other than "1"; a non-empty list comes only with status "1".
HistoryDegrades ==
  (HistoryReturned /\ is_address(tx.from)) =>
    /\ \/ tx.response.raises
       \/ tx.response.status_code # 200
       \/ (tx.response.json /\ tx.response.status # "1")
       => ret.kind = "value" /\ ret.list = <<>>
    /\ (ret.kind = "value" /\ ret.list # <<>>) => tx.response.status = "1"

\* C8. No step of send_transaction, whatever its outcome, changes self.accounts
\* or the files of the directory.
SendFrame ==
  [][(pc \in SendPcs \/ (pc = "idle" /\ (pc' \in SendPcs \/ ret'.op = "send")))
       => (accounts' = accounts /\ disk' = disk)]_vars

SendFailedAtClient ==
  /\ SendReturned
  /\ ret.kind = "error"
  /\ calls # <<>>
  /\ DOMAIN accounts # {}
  /\ DOMAIN disk # {}

Intact(r, acc, dir) ==
  /\ r.address \in DOMAIN acc
  /\ acc[r.address] = r
  /\ wallet_path(r.address) \in DOMAIN dir
  /\ json_load(dir[wallet_path(r.address)]).ok
  /\ json_load(dir[wallet_path(r.address)]).dict
  /\ RecordIn(dir, wallet_path(r.address)) = acc[r.address]

IdempotentLoad ==
  [][(pc = "boot" /\ pc' = "idle" /\ loaded.done) => accounts' = loaded.map]_vars
====
